---- MODULE Spec2Model ----
(***************************************************************************)
(* Model of the grading and result-persistence logic of the exam backend   *)
(* (src/main.py): the handlers validate_answers and submit_exam, the       *)
(* helper save_exam_result, calculate_grade and the evaluators.            *)
(*                                                                         *)
(* Strings are sequences of one-character strings, so that str.strip()     *)
(* and str.lower() are computed, not assumed.  Scores are exact rationals  *)
(* truncated to 1/ScoreScale of a point (for the question counts used      *)
(* here the Python float c/g*100 compares with 60/70/80/90 as the exact    *)
(* value does).                                                            *)
(***************************************************************************)
EXTENDS Integers, Sequences, FiniteSets, TLC

\* ------------------------------------------------------------------ bounds
\* longest question list of a submission
MaxQuestions == 2

\* score unit: 1/ScoreScale of a percent point
ScoreScale == 10000

\* ----------------------------------------------------------------- strings
UpperChars == <<"A","B","C","D","E","F","G","H","I","J","K","L","M",
                "N","O","P","Q","R","S","T","U","V","W","X","Y","Z">>
LowerChars == <<"a","b","c","d","e","f","g","h","i","j","k","l","m",
                "n","o","p","q","r","s","t","u","v","w","x","y","z">>
Whitespace == {" ", "\t", "\n"}

\* str.lower() on one character
LowerChar(c) ==
  IF \E i \in 1..26 : UpperChars[i] = c
  THEN LowerChars[CHOOSE i \in 1..26 : UpperChars[i] = c]
  ELSE c

\* str.lower()
Lower(s) == [i \in 1..Len(s) |-> LowerChar(s[i])]

\* str.strip(): drop leading and trailing whitespace
Strip(s) ==
  LET keep == {i \in 1..Len(s) : s[i] \notin Whitespace}
  IN IF keep = {} THEN <<>>
     ELSE LET lo == CHOOSE i \in keep : \A j \in keep : i <= j
              hi == CHOOSE i \in keep : \A j \in keep : j <= i
          IN SubSeq(s, lo, hi)

\* JSON values that reach the grader: strings, booleans, null.
JStr(s) == [kind |-> "str",  s |-> s]
JTrue   == [kind |-> "bool", s |-> <<"1">>]
JFalse  == [kind |-> "bool", s |-> <<"0">>]
JNull   == [kind |-> "null", s |-> <<>>]

\* Python str(v)
Str(v) ==
  CASE v.kind = "str"  -> v.s
    [] v.kind = "bool" -> IF v.s = <<"1">> THEN <<"T","r","u","e">>
                          ELSE <<"F","a","l","s","e">>
    [] v.kind = "null" -> <<"N","o","n","e">>

\* a mutation of Normalize: the lowercase step is lost
NormalizeNoLower(v) == Strip(Str(v))

\* a mutation of Normalize: one leading whitespace character is dropped
\* instead of all leading and trailing ones
NormalizeDropOne(v) ==
  LET s == Str(v)
  IN Lower(IF s # <<>> /\ Head(s) \in Whitespace THEN Tail(s) ELSE s)

\* str(v).strip().lower(), as written at both sides of the comparison
Normalize(v) == Lower(Strip(Str(v)))

\* dict.get(key, default)
Get(d, key, default) == IF key \in DOMAIN d THEN d[key] ELSE default

\* question types as they appear in payloads
T_mcq    == <<"m","c","q">>
T_MCQ    == <<"M","C","Q">>
T_tf     == <<"t","r","u","e","_","f","a","l","s","e">>
T_short  == <<"s","h","o","r","t","_","a","n","s","w","e","r">>
T_essay  == <<"e","s","s","a","y">>
T_coding == <<"c","o","d","i","n","g">>
T_other  == <<"f","i","l","l">>

\* ------------------------------------------------------------ calculate_grade
\* a mutation of calculate_grade: the D band starts at 50
calculate_grade_D50(score) ==
  IF score >= 90 * ScoreScale THEN "A"
  ELSE IF score >= 80 * ScoreScale THEN "B"
  ELSE IF score >= 70 * ScoreScale THEN "C"
  ELSE IF score >= 50 * ScoreScale THEN "D"
  ELSE "F"

calculate_grade(score) ==
  IF score >= 90 * ScoreScale THEN "A"
  ELSE IF score >= 80 * ScoreScale THEN "B"
  ELSE IF score >= 70 * ScoreScale THEN "C"
  ELSE IF score >= 60 * ScoreScale THEN "D"
  ELSE "F"

\* ------------------------------------------------------------- evaluators
\* What the LLM call inside evaluate_essay / evaluate_code ends with:
\*   "dict"    the reply parses to a JSON object (with or without the
\*             overall_score and feedback keys),
\*   "raise"   the call or json.loads raises,
\*   "nondict" the reply parses to JSON that is no object.
FailedEvaluation ==
  [error |-> "Evaluation failed", overall_score |-> 0,
   feedback |-> "Automatic evaluation failed. Please review manually."]

\* evaluate_essay: the try/except around the LLM call
evaluate_essay(llm) ==
  IF llm.kind = "raise" THEN [kind |-> "dict", d |-> FailedEvaluation]
  ELSE llm

\* a mutation of evaluate_code: no except clause, so what the LLM call
\* raises leaves the evaluator and ends the grading
evaluate_code_unguarded(llm) ==
  IF llm.kind = "raise" THEN [kind |-> "nondict"]
  ELSE llm

\* evaluate_code: same shape as evaluate_essay
evaluate_code(llm) ==
  IF llm.kind = "raise" THEN [kind |-> "dict", d |-> FailedEvaluation]
  ELSE llm

\* ------------------------------------------------------ validate_questions
\* a mutation of ValidateOne: only the type of the question is checked
ValidateOneTypeOnly(question, expected_type, expected_level) ==
  IF Get(question, "type", <<>>) # expected_type
  THEN [raise |-> TRUE, question |-> question]
  ELSE [raise |-> FALSE, question |-> question]

\* Lines 659-677: the body of the loop of validate_questions for one
\* question: whether it raises ValueError, and the question as the body
\* leaves it (level overwritten, options of a true_false question reset,
\* options of a short_answer question deleted).  A missing type reads as
\* None, which equals no expected type.
ValidateOne(question, expected_type, expected_level) ==
  IF Get(question, "type", <<>>) # expected_type
  THEN [raise |-> TRUE, question |-> question]
  ELSE LET levelled == [level |-> expected_level] @@ question
       IN IF expected_type = T_mcq
          THEN IF \/ "options" \notin DOMAIN levelled
                  \/ levelled.options = <<>>
                  \/ Len(levelled.options) # 4
               THEN [raise |-> TRUE, question |-> levelled]
               ELSE [raise |-> FALSE, question |-> levelled]
          ELSE IF expected_type = T_tf
          THEN [raise |-> FALSE,
                question |-> [options |-> <<"True", "False">>] @@ levelled]
          ELSE IF expected_type = T_short
          THEN [raise |-> FALSE,
                question |-> [key \in DOMAIN levelled \ {"options"} |->
                                levelled[key]]]
          ELSE [raise |-> FALSE, question |-> levelled]

\* validate_questions(questions, expected_type, expected_level): raises at
\* the first question whose body raises, otherwise returns with the list
\* changed in place
validate_questions(questions, expected_type, expected_level) ==
  LET one(k) == ValidateOne(questions[k], expected_type, expected_level)
  IN IF \E k \in 1..Len(questions) : one(k).raise
     THEN [raise |-> TRUE]
     ELSE [raise |-> FALSE,
           questions |-> [k \in 1..Len(questions) |-> one(k).question]]

\* ---------------------------------------------------- the grading loop body
NoFeedback == "None"

\* a mutation of GradeQuestion: an essay scored 100 is also counted correct,
\* after its evaluation failed to count it gradeable
GradeQuestionEssayCounted(question, user_answer, llm) ==
  LET question_type == Lower(Get(question, "type", <<>>))
  IN IF question_type \in {T_mcq, T_tf}
     THEN LET is_correct ==
                Normalize(user_answer) =
                  Normalize(Get(question, "correct_answer", JStr(<<>>)))
          IN [raise |-> FALSE, score |-> IF is_correct THEN 100 ELSE 0,
              gradeable |-> 1, correct |-> IF is_correct THEN 1 ELSE 0,
              feedback |-> NoFeedback]
     ELSE IF question_type \in {T_essay, T_coding}
     THEN LET evaluation == evaluate_essay(llm)
          IN IF evaluation.kind = "nondict"
             THEN [raise |-> TRUE]
             ELSE LET sc == Get(evaluation.d, "overall_score", 0)
                  IN [raise |-> FALSE, score |-> sc,
                      gradeable |-> IF sc = 100 THEN 0 ELSE 1,
                      correct |-> IF sc = 100 THEN 1 ELSE 0,
                      feedback |-> Get(evaluation.d, "feedback", NoFeedback)]
     ELSE [raise |-> FALSE, score |-> 0, gradeable |-> 0, correct |-> 0,
           feedback |-> NoFeedback]

\* a mutation of GradeQuestion: an essay or coding question counts as
\* correct when the evaluator scores it 60 or more
GradeQuestionByEvaluation(question, user_answer, llm) ==
  LET question_type == Lower(Get(question, "type", <<>>))
  IN IF question_type \in {T_mcq, T_tf}
     THEN LET is_correct ==
                Normalize(user_answer) =
                  Normalize(Get(question, "correct_answer", JStr(<<>>)))
          IN [raise |-> FALSE, score |-> IF is_correct THEN 100 ELSE 0,
              gradeable |-> 1, correct |-> IF is_correct THEN 1 ELSE 0,
              feedback |-> NoFeedback]
     ELSE IF question_type \in {T_essay, T_coding}
     THEN LET evaluation == evaluate_essay(llm)
          IN IF evaluation.kind = "nondict"
             THEN [raise |-> TRUE]
             ELSE LET sc == Get(evaluation.d, "overall_score", 0)
                  IN [raise |-> FALSE, score |-> sc, gradeable |-> 1,
                      correct |-> IF sc >= 60 THEN 1 ELSE 0,
                      feedback |-> Get(evaluation.d, "feedback", NoFeedback)]
     ELSE [raise |-> FALSE, score |-> 0, gradeable |-> 0, correct |-> 0,
           feedback |-> NoFeedback]

\* Lines 965-996 of validate_answers: the score of one question and what it
\* adds to total_gradeable_questions and correct_count.  raise: the
\* evaluation is no dict, so evaluation.get raises AttributeError.
GradeQuestion(question, user_answer, llm) ==
  LET question_type == Lower(Get(question, "type", <<>>))
  IN IF question_type \in {T_mcq, T_tf}
     THEN LET is_correct ==
                Normalize(user_answer) =
                  Normalize(Get(question, "correct_answer", JStr(<<>>)))
          IN [raise |-> FALSE, score |-> IF is_correct THEN 100 ELSE 0,
              gradeable |-> 1, correct |-> IF is_correct THEN 1 ELSE 0,
              feedback |-> NoFeedback]
     ELSE IF question_type = T_essay
     THEN LET evaluation == evaluate_essay(llm)
          IN IF evaluation.kind = "nondict"
             THEN [raise |-> TRUE]
             ELSE [raise |-> FALSE,
                   score |-> Get(evaluation.d, "overall_score", 0),
                   gradeable |-> 1, correct |-> 0,
                   feedback |-> Get(evaluation.d, "feedback", NoFeedback)]
     ELSE IF question_type = T_coding
     THEN LET evaluation == evaluate_code(llm)
          IN IF evaluation.kind = "nondict"
             THEN [raise |-> TRUE]
             ELSE [raise |-> FALSE,
                   score |-> Get(evaluation.d, "overall_score", 0),
                   gradeable |-> 1, correct |-> 0,
                   feedback |-> Get(evaluation.d, "feedback", NoFeedback)]
     ELSE [raise |-> FALSE, score |-> 0, gradeable |-> 0, correct |-> 0,
           feedback |-> NoFeedback]

\* a mutation of LoopBody: a question without an entry in answers takes the
\* value of another entry
LoopBodyAnyAnswer(question, answers, llm, exam_id, user_id, question_id) ==
  IF ~ ({"id", "question"} \subseteq DOMAIN question)
  THEN [raise |-> TRUE]
  ELSE LET q_id == Str(question.id)
           user_answer ==
             IF q_id \in DOMAIN answers THEN answers[q_id]
             ELSE IF DOMAIN answers # {}
             THEN answers[CHOOSE key \in DOMAIN answers : TRUE]
             ELSE JStr(<<>>)
           g == GradeQuestion(question, user_answer, llm)
       IN IF g.raise
          THEN [raise |-> TRUE]
          ELSE [raise |-> FALSE,
                qrow |-> [id |-> question_id, exam_id |-> exam_id,
                          question_type |-> Get(question, "type", <<>>),
                          correct_answer |->
                            Get(question, "correct_answer", JStr(<<>>))],
                arow |-> [exam_id |-> exam_id, user_id |-> user_id,
                          question_id |-> question_id,
                          answer |-> user_answer,
                          is_correct |-> IF g.score = 100 THEN 1 ELSE 0],
                detail |-> [question_id |-> question_id, score |-> g.score,
                            feedback |-> g.feedback],
                gradeable |-> g.gradeable,
                correct |-> g.correct]

\* Lines 944-963 and 998-1018: one iteration of the loop over questions.
\* raise: question["id"] or question["question"] is missing (KeyError), or
\* the grading raised.  Otherwise the two rows the iteration inserts, the
\* entry it appends to detailed_results and the counter increments.
LoopBody(question, answers, llm, exam_id, user_id, question_id) ==
  IF ~ ({"id", "question"} \subseteq DOMAIN question)
  THEN [raise |-> TRUE]
  ELSE LET q_id == Str(question.id)
           user_answer == Get(answers, q_id, JStr(<<>>))
           g == GradeQuestion(question, user_answer, llm)
       IN IF g.raise
          THEN [raise |-> TRUE]
          ELSE [raise |-> FALSE,
                qrow |-> [id |-> question_id, exam_id |-> exam_id,
                          question_type |-> Get(question, "type", <<>>),
                          correct_answer |->
                            Get(question, "correct_answer", JStr(<<>>))],
                arow |-> [exam_id |-> exam_id, user_id |-> user_id,
                          question_id |-> question_id,
                          answer |-> user_answer,
                          is_correct |-> IF g.score = 100 THEN 1 ELSE 0],
                detail |-> [question_id |-> question_id, score |-> g.score,
                            feedback |-> g.feedback],
                gradeable |-> g.gradeable,
                correct |-> g.correct]

\* a mutation of FinalScore: the division by the gradeable count is lost
FinalScoreNoDivision(correct_count, total_gradeable_questions) ==
  correct_count * 100 * ScoreScale

\* Line 1023: final_score, in units of 1/ScoreScale
FinalScore(correct_count, total_gradeable_questions) ==
  IF total_gradeable_questions > 0
  THEN (correct_count * 100 * ScoreScale) \div total_gradeable_questions
  ELSE 0

\* ------------------------------------------------------------------ inputs
Users == {"u1", "u2"}

\* questions of the submissions: an mcq, an upper-case MCQ whose reference
\* answer is padded, a true_false, an essay, a coding and a short_answer
\* question, and a question that lacks its id
QuestionPool ==
  { [id |-> JStr(<<"1">>), question |-> "q", type |-> T_mcq,
     correct_answer |-> JStr(<<"A">>)],
    [id |-> JStr(<<"2">>), question |-> "q", type |-> T_MCQ,
     correct_answer |-> JStr(<<" ", "b">>)],
    [id |-> JStr(<<"2">>), question |-> "q", type |-> T_tf,
     correct_answer |-> JStr(<<"T","r","u","e">>)],
    [id |-> JStr(<<"1">>), question |-> "q", type |-> T_essay,
     correct_answer |-> JStr(<<"A">>)],
    [id |-> JStr(<<"2">>), question |-> "q", type |-> T_coding],
    [id |-> JStr(<<"1">>), question |-> "q", type |-> T_short,
     correct_answer |-> JStr(<<"A">>)],
    [question |-> "q", type |-> T_mcq, correct_answer |-> JStr(<<"A">>)] }

\* answers mappings: question id (string) -> raw answer
AnswersPool ==
  { <<>>,
    (<<"1">> :> JStr(<<"a", " ">>)) @@ (<<"2">> :> JTrue),
    (<<"1">> :> JStr(<<"B">>)) @@ (<<"2">> :> JStr(<<"B">>))
       @@ (<<"9">> :> JStr(<<"A">>)) }

\* what the LLM call of an evaluator may end with
LlmOutcomes ==
  { [kind |-> "dict", d |-> [overall_score |-> 100, feedback |-> "fb"]],
    [kind |-> "dict", d |-> [overall_score |-> 83, feedback |-> "fb"]],
    [kind |-> "dict", d |-> [scores |-> "s"]],
    [kind |-> "raise"],
    [kind |-> "nondict"] }

\* the evaluator is called for essay and coding questions only
CallsLlm(question) ==
  Lower(Get(question, "type", <<>>)) \in {T_essay, T_coding}

SeqsUpTo(S, n) == UNION { [1..k -> S] : k \in 0..n }

\* request bodies: a JSON object with or without its answers and questions
Payloads(questionLists) ==
  { [answers |-> a, questions |-> q] : a \in AnswersPool, q \in questionLists }
    \cup { [answers |-> a] : a \in AnswersPool }
    \cup { [questions |-> q] : q \in questionLists }

\* ------------------------------------------------------------------- state
VARIABLES
  results,       \* table results of exam_results.db; the row id is the index
  detailed,      \* table detailed_results of exam_results.db
  questions_tbl, \* table questions of exam_questions.db (committed rows)
  user_answers,  \* table user_answers of exam_questions.db (committed rows)
  wlock,         \* who holds the write transaction on exam_questions.db
  req,           \* per user: the request in flight and its local variables
  audit          \* per results row: who inserted it, how often it was updated

vars == <<results, detailed, questions_tbl, user_answers, wlock, req, audit>>

NoLock == "free"
NoResponse == [code |-> 0]
NoData == [none |-> TRUE]

\* the locals of a request, as at lines 915-921
Fresh(handler, data) ==
  [pc |-> "received", handler |-> handler, data |-> data,
   exam_id |-> 0, i |-> 1, correct_count |-> 0,
   total_gradeable_questions |-> 0, detailed_results |-> <<>>,
   txq |-> <<>>, txa |-> <<>>, faulted |-> FALSE, response |-> NoResponse]

Idle == [Fresh("none", NoData) EXCEPT !.pc = "idle"]

Init ==
  /\ results = <<>>
  /\ detailed = <<>>
  /\ questions_tbl = <<>>
  /\ user_answers = <<>>
  /\ wlock = NoLock
  /\ req = [u \in Users |-> Idle]
  /\ audit = <<>>

InFlight(u) == req[u].pc \notin {"idle", "done"}

WellFormed(data) == {"answers", "questions"} \subseteq DOMAIN data

ErrorResponse(code) == [code |-> code]

\* ------------------------------------------------------- validate_answers
\* Lines 909-921: the request is read; the locals are initialised.
VA_Receive(u, data) ==
  /\ req[u].pc = "idle"
  /\ req' = [req EXCEPT ![u] = Fresh("validate_answers", data)]
  /\ UNCHANGED <<results, detailed, questions_tbl, user_answers, wlock, audit>>

\* a mutation of VA_Reject: the placeholder row is inserted before the body
\* is validated
VA_RejectLate(u) ==
  /\ req[u].pc = "received"
  /\ req[u].handler = "validate_answers"
  /\ ~ WellFormed(req[u].data)
  /\ results' = Append(results,
       [user_id |-> u, score |-> 0, grade |-> "P", status |-> "In Progress",
        total_questions |-> 0, correct_answers |-> 0])
  /\ audit' = Append(audit, [by |-> u, via |-> "validate_answers",
                             updates |-> 0])
  /\ req' = [req EXCEPT ![u].pc = "done", ![u].response = ErrorResponse(400)]
  /\ UNCHANGED <<detailed, questions_tbl, user_answers, wlock>>

\* Lines 912-913: a body without answers or questions is answered 400.
VA_Reject(u) ==
  /\ req[u].pc = "received"
  /\ req[u].handler = "validate_answers"
  /\ ~ WellFormed(req[u].data)
  /\ req' = [req EXCEPT ![u].pc = "done", ![u].response = ErrorResponse(400)]
  /\ UNCHANGED <<results, detailed, questions_tbl, user_answers, wlock, audit>>

\* the row of lines 928-933
Placeholder(u, questions) ==
  [user_id |-> u, score |-> 0, grade |-> "P", status |-> "In Progress",
   total_questions |-> Len(questions), correct_answers |-> 0]

\* Lines 923-936: the placeholder row is inserted and committed.
VA_InsertPlaceholder(u) ==
  /\ req[u].pc = "received"
  /\ req[u].handler = "validate_answers"
  /\ WellFormed(req[u].data)
  /\ results' = Append(results, Placeholder(u, req[u].data.questions))
  /\ audit' = Append(audit, [by |-> u, via |-> "validate_answers",
                             updates |-> 0])
  /\ req' = [req EXCEPT ![u].pc = "loop", ![u].exam_id = Len(results) + 1]
  /\ UNCHANGED <<detailed, questions_tbl, user_answers, wlock>>

\* a mutation of Abort: the exception is swallowed and the handler answers
\* with the success payload
AbortSwallowed(u, injected) ==
  /\ req' = [req EXCEPT ![u].pc = "done", ![u].txq = <<>>, ![u].txa = <<>>,
                        ![u].faulted = injected,
                        ![u].response =
                          [code |-> 200, exam_id |-> req[u].exam_id,
                           score |-> 0, grade |-> "F",
                           correct_answers |-> req[u].correct_count,
                           total_questions |->
                             req[u].total_gradeable_questions,
                           detailed_results |-> req[u].detailed_results]]
  /\ wlock' = IF wlock = u THEN NoLock ELSE wlock

\* The exception path of validate_answers (lines 1044-1049): questions_conn is
\* closed without a commit, which drops its uncommitted rows and ends its
\* write transaction; the handler answers 500.
Abort(u, injected) ==
  /\ req' = [req EXCEPT ![u].pc = "done", ![u].txq = <<>>, ![u].txa = <<>>,
                        ![u].faulted = injected,
                        ![u].response = ErrorResponse(500)]
  /\ wlock' = IF wlock = u THEN NoLock ELSE wlock

\* question["id"] and question["question"] are read before the INSERT
HasKeys(question) == {"id", "question"} \subseteq DOMAIN question

\* a mutation of VA_Question: correct_count is overwritten by the verdict
\* of the current question instead of incremented
VA_QuestionLastWins(u, llm) ==
  /\ req[u].pc = "loop"
  /\ req[u].i <= Len(req[u].data.questions)
  /\ LET r == req[u]
         question == r.data.questions[r.i]
         question_id == Len(questions_tbl) + Len(r.txq) + 1
         b == LoopBody(question, r.data.answers, llm, r.exam_id, u,
                       question_id)
     IN /\ HasKeys(question) => wlock \in {NoLock, u}
        /\ CallsLlm(question) \/ llm = [kind |-> "raise"]
        /\ IF b.raise
           THEN Abort(u, FALSE)
           ELSE /\ req' = [req EXCEPT
                     ![u].i = r.i + 1,
                     ![u].txq = Append(r.txq, b.qrow),
                     ![u].txa = Append(r.txa, b.arow),
                     ![u].detailed_results =
                        Append(r.detailed_results, b.detail),
                     ![u].total_gradeable_questions =
                        r.total_gradeable_questions + b.gradeable,
                     ![u].correct_count = b.correct]
                /\ wlock' = u
  /\ UNCHANGED <<results, detailed, questions_tbl, user_answers, audit>>

\* Lines 943-1018: one iteration of the loop.  The first INSERT of the
\* request starts the write transaction on exam_questions.db; while another
\* connection holds it the INSERT waits.
VA_Question(u, llm) ==
  /\ req[u].pc = "loop"
  /\ req[u].i <= Len(req[u].data.questions)
  /\ LET r == req[u]
         question == r.data.questions[r.i]
         question_id == Len(questions_tbl) + Len(r.txq) + 1
         b == LoopBody(question, r.data.answers, llm, r.exam_id, u,
                       question_id)
     IN /\ HasKeys(question) => wlock \in {NoLock, u}
        /\ CallsLlm(question) \/ llm = [kind |-> "raise"]
        /\ IF b.raise
           THEN Abort(u, FALSE)
           ELSE /\ req' = [req EXCEPT
                     ![u].i = r.i + 1,
                     ![u].txq = Append(r.txq, b.qrow),
                     ![u].txa = Append(r.txa, b.arow),
                     ![u].detailed_results =
                        Append(r.detailed_results, b.detail),
                     ![u].total_gradeable_questions =
                        r.total_gradeable_questions + b.gradeable,
                     ![u].correct_count = r.correct_count + b.correct]
                /\ wlock' = u
  /\ UNCHANGED <<results, detailed, questions_tbl, user_answers, audit>>

\* Line 1020: questions_conn.commit() publishes the rows of the request.
VA_Commit(u) ==
  /\ req[u].pc = "loop"
  /\ req[u].i > Len(req[u].data.questions)
  /\ questions_tbl' = questions_tbl \o req[u].txq
  /\ user_answers' = user_answers \o req[u].txa
  /\ wlock' = IF wlock = u THEN NoLock ELSE wlock
  /\ req' = [req EXCEPT ![u].pc = "committed", ![u].txq = <<>>,
                        ![u].txa = <<>>]
  /\ UNCHANGED <<results, detailed, audit>>

\* the body of lines 1035-1042
SuccessResponse(r, final_score) ==
  [code |-> 200, exam_id |-> r.exam_id, score |-> final_score,
   grade |-> calculate_grade(final_score),
   correct_answers |-> r.correct_count,
   total_questions |-> r.total_gradeable_questions,
   detailed_results |-> r.detailed_results]

\* the UPDATE of lines 1027-1031
FinalRow(row, final_score, correct_count) ==
  [row EXCEPT !.score = final_score,
              !.grade = calculate_grade(final_score),
              !.status = "Completed",
              !.correct_answers = correct_count]

\* a mutation of VA_Finish: the UPDATE has no WHERE clause
VA_FinishEveryRow(u) ==
  /\ req[u].pc = "committed"
  /\ LET r == req[u]
         final_score == FinalScore(r.correct_count,
                                   r.total_gradeable_questions)
     IN /\ results' = [k \in 1..Len(results) |->
                         FinalRow(results[k], final_score, r.correct_count)]
        /\ audit' = [k \in 1..Len(audit) |->
                       [audit[k] EXCEPT !.updates = @ + 1]]
        /\ req' = [req EXCEPT ![u].pc = "done",
                     ![u].response = SuccessResponse(r, final_score)]
  /\ UNCHANGED <<detailed, questions_tbl, user_answers, wlock>>

\* Lines 1022-1042: the final score, the UPDATE of the placeholder row and
\* the success response.
VA_Finish(u) ==
  /\ req[u].pc = "committed"
  /\ LET r == req[u]
         final_score == FinalScore(r.correct_count,
                                   r.total_gradeable_questions)
     IN /\ results' = [results EXCEPT ![r.exam_id] =
                         FinalRow(@, final_score, r.correct_count)]
        /\ audit' = [audit EXCEPT ![r.exam_id].updates = @ + 1]
        /\ req' = [req EXCEPT ![u].pc = "done",
                     ![u].response = SuccessResponse(r, final_score)]
  /\ UNCHANGED <<detailed, questions_tbl, user_answers, wlock>>

\* A statement on a database connection raises (sqlite3.Error): the INSERT
\* of the placeholder, an INSERT of the loop, the commit or the final
\* UPDATE.  The handler's except clause answers 500.
VA_Fault(u) ==
  /\ req[u].handler = "validate_answers"
  /\ \/ req[u].pc = "received" /\ WellFormed(req[u].data)
     \/ req[u].pc = "loop" /\ wlock \in {NoLock, u}
     \/ req[u].pc = "committed"
  /\ Abort(u, TRUE)
  /\ UNCHANGED <<results, detailed, questions_tbl, user_answers, audit>>

\* get_db_connection opens exam_questions.db with sqlite3's default busy
\* timeout: an INSERT that waits that long for the write transaction of
\* another connection raises "database is locked".
VA_LockTimeout(u) ==
  /\ req[u].pc = "loop"
  /\ req[u].i <= Len(req[u].data.questions)
  /\ HasKeys(req[u].data.questions[req[u].i])
  /\ wlock \notin {NoLock, u}
  /\ Abort(u, FALSE)
  /\ UNCHANGED <<results, detailed, questions_tbl, user_answers, audit>>

\* -------------------------------------------------------- save_exam_result
\* tables init_databases creates in exam_results.db; questions and
\* user_answers are created in exam_questions.db only
ResultsDbTables == {"results", "detailed_results"}

\* line 179: int((score / 100) * total_questions)
SavedCorrect(score, total_questions) ==
  (score * total_questions) \div (100 * ScoreScale)

\* lines 164-180: the summary row save_exam_result inserts
SummaryRow(user_id, questions, score) ==
  [user_id |-> user_id, score |-> score, grade |-> calculate_grade(score),
   status |-> IF score >= 60 * ScoreScale THEN "Passed" ELSE "Failed",
   total_questions |-> Len(questions),
   correct_answers |-> SavedCorrect(score, Len(questions))]

\* save_exam_result called with the positional arguments args; fault names
\* the statement at which the database raises ("none", "summary", "detail").
\* Yields whether the call raises and the rows that stay committed:
\*  - fewer arguments than the five required parameters: TypeError;
\*  - lines 172-182: the summary row is inserted and committed;
\*  - lines 185-199: the detailed results are inserted and committed;
\*  - lines 202-216: the first question raises, for a missing id (KeyError)
\*    or at the INSERT INTO questions, a table exam_results.db lacks; the
\*    rollback of line 240 leaves what was committed.
save_exam_result(args, fault, exam_id) ==
  IF Len(args) < 5
  THEN [raise |-> TRUE, faulted |-> FALSE, summary |-> <<>>, details |-> <<>>]
  ELSE IF fault = "summary"
  THEN [raise |-> TRUE, faulted |-> TRUE, summary |-> <<>>, details |-> <<>>]
  ELSE LET user_id == args[1]
           questions == args[2]
           score == args[4]
           detailed_results == IF Len(args) >= 6 THEN args[6] ELSE <<>>
           row == SummaryRow(user_id, questions, score)
           drows == [k \in 1..Len(detailed_results) |->
                       [exam_id |-> exam_id,
                        question_id |-> detailed_results[k].question_id,
                        score |-> detailed_results[k].score]]
       IN IF detailed_results # <<>> /\ fault = "detail"
          THEN [raise |-> TRUE, faulted |-> TRUE, summary |-> <<row>>,
                details |-> <<>>]
          ELSE IF questions # <<>>
                  /\ (\/ "id" \notin DOMAIN questions[1]
                      \/ "questions" \notin ResultsDbTables)
          THEN [raise |-> TRUE, faulted |-> FALSE, summary |-> <<row>>,
                details |-> drows]
          ELSE [raise |-> FALSE, faulted |-> FALSE, summary |-> <<row>>,
                details |-> drows, exam_id |-> exam_id]

\* lines 219-223 of save_exam_result: is_correct of a stored answer, None
\* for essay and coding questions (1 and 0 are written as JSON values, so
\* that they compare with None)
SavedIsCorrect(question, answers) ==
  LET q_id == Str(question.id)
      q_type == Lower(Get(question, "type", <<>>))
      correct_answer == Get(question, "correct_answer", JStr(<<>>))
      user_answer == Get(answers, q_id, JStr(<<>>))
  IN IF q_type \notin {T_essay, T_coding}
     THEN JStr(IF Normalize(user_answer) = Normalize(correct_answer)
               THEN <<"1">> ELSE <<"0">>)
     ELSE JNull

\* what a call of save_exam_result leaves in exam_results.db
Saved(u, out, via) ==
  /\ results' = results \o out.summary
  /\ audit' = audit \o [k \in 1..Len(out.summary) |->
                          [by |-> u, via |-> via, updates |-> 0]]
  /\ detailed' = detailed \o out.details

\* score values handed to save_exam_result
SaveScores == {0, 595000, 600000, 1000000}

\* a direct call save_exam_result(user_id, questions, answers, score,
\* subject, detailed_results)
SER_Call(u, questions, answers, score, detailed_results, fault) ==
  /\ req[u].pc = "idle"
  /\ LET args == <<u, questions, answers, score, "General", detailed_results>>
         out == save_exam_result(args, fault, Len(results) + 1)
     IN /\ Saved(u, out, "save_exam_result")
        /\ req' = [req EXCEPT ![u] =
             [Fresh("save_exam_result",
                    [answers |-> answers, questions |-> questions])
              EXCEPT !.pc = "done",
                     !.faulted = out.faulted,
                     !.exam_id = IF out.raise THEN 0 ELSE Len(results) + 1,
                     !.response = IF out.raise THEN [code |-> 500]
                                  ELSE [code |-> 200,
                                        exam_id |-> Len(results) + 1]]]
  /\ UNCHANGED <<questions_tbl, user_answers, wlock>>

\* ------------------------------------------------------------- submit_exam
\* round(x, 2)
Round2(x) == ((x + ScoreScale \div 200) \div (ScoreScale \div 100))
               * (ScoreScale \div 100)

\* answers.get(key): None when the key is missing
GetOrNone(d, key) == IF key \in DOMAIN d THEN d[key] ELSE JNull

\* lines 1175-1178: the count of questions whose raw answer equals the raw
\* correct_answer
RECURSIVE SubmitCorrect(_, _)
SubmitCorrect(questions, answers) ==
  IF questions = <<>> THEN 0
  ELSE LET q == Head(questions)
       IN (IF GetOrNone(answers, Str(q.id)) = q.correct_answer THEN 1 ELSE 0)
            + SubmitCorrect(Tail(questions), answers)

\* lines 1161-1193 as one step: the handler writes through a single
\* connection inside save_exam_result.  fault: as for save_exam_result.
SE_Submit(u, data, fault) ==
  /\ req[u].pc = "idle"
  /\ LET done(resp, id, failed) ==
           req' = [req EXCEPT ![u] =
             [Fresh("submit_exam", data) EXCEPT
                !.pc = "done", !.response = resp, !.exam_id = id,
                !.faulted = failed]]
     IN IF ~ WellFormed(data)
        THEN /\ done(ErrorResponse(400), 0, FALSE)
             /\ UNCHANGED <<results, detailed, audit>>
        ELSE LET questions == data.questions
                 answers == data.answers
                 total_questions == Len(questions)
             IN IF \E k \in 1..Len(questions) :
                     ~ ({"id", "correct_answer"} \subseteq DOMAIN questions[k])
                THEN /\ done(ErrorResponse(500), 0, FALSE)
                     /\ UNCHANGED <<results, detailed, audit>>
                ELSE LET correct_answers == SubmitCorrect(questions, answers)
                         score == IF total_questions > 0
                                  THEN Round2(FinalScore(correct_answers,
                                                         total_questions))
                                  ELSE 0
                         out == save_exam_result(
                                  <<u, questions, answers, score>>, fault,
                                  Len(results) + 1)
                     IN /\ Saved(u, out, "submit_exam")
                        /\ IF out.raise
                           THEN done(ErrorResponse(500), 0, out.faulted)
                           ELSE done([code |-> 200,
                                      exam_id |-> out.exam_id,
                                      score |-> score,
                                      grade |-> calculate_grade(score)],
                                     out.exam_id, FALSE)
  /\ UNCHANGED <<questions_tbl, user_answers, wlock>>

\* ------------------------------------------------ get_results, exam_detail
\* lines 1094-1104: what get_results reports of a results row; from_questions
\* are the rows of the questions table its subject is read from (lines
\* 1082-1089)
ResultEntry(k) ==
  [id |-> k, user_id |-> results[k].user_id, score |-> results[k].score,
   grade |-> results[k].grade, status |-> results[k].status,
   total_questions |-> results[k].total_questions,
   correct_answers |-> results[k].correct_answers,
   from_questions |-> {j \in 1..Len(questions_tbl) :
                         questions_tbl[j].exam_id = k}]

\* Lines 1053-1138: get_results of user u: the rows SELECT ... WHERE
\* user_id = ? yields, 404 when there is none.  The order of the list is
\* not kept.
GR_Call(u) ==
  /\ req[u].pc \in {"idle", "done"}
  /\ LET rows == {k \in 1..Len(results) : results[k].user_id = u}
     IN req' = [req EXCEPT ![u] =
          [Fresh("get_results", [user_id |-> u])
           EXCEPT !.pc = "done",
                  !.response =
                    IF rows = {} THEN ErrorResponse(404)
                    ELSE [code |-> 200,
                          results |-> {ResultEntry(k) : k \in rows}]]]
  /\ UNCHANGED <<results, detailed, questions_tbl, user_answers, wlock, audit>>

\* the rows of the JOIN of lines 311-327: an answer row of the exam and the
\* user with the question row its question_id names
JoinedQuestions(exam_result_id, user_id) ==
  { [id |-> questions_tbl[j].id,
     correct_answer |-> questions_tbl[j].correct_answer,
     type |-> questions_tbl[j].question_type,
     user_answer |-> user_answers[a].answer,
     is_correct |-> user_answers[a].is_correct = 1] :
      <<j, a>> \in
        { p \in (1..Len(questions_tbl)) \X (1..Len(user_answers)) :
            /\ questions_tbl[p[1]].id = user_answers[p[2]].question_id
            /\ user_answers[p[2]].exam_id = exam_result_id
            /\ user_answers[p[2]].user_id = user_id } }

\* a mutation of get_exam_details: the results row is selected by its id
\* alone
get_exam_details_any(exam_result_id, user_id) ==
  IF exam_result_id \notin 1..Len(results)
  THEN [found |-> FALSE]
  ELSE [found |-> TRUE,
        exam_detail |->
          [id |-> exam_result_id,
           score |-> results[exam_result_id].score,
           grade |-> results[exam_result_id].grade,
           status |-> results[exam_result_id].status,
           total_questions |-> results[exam_result_id].total_questions,
           correct_answers |-> results[exam_result_id].correct_answers,
           questions |-> JoinedQuestions(exam_result_id, user_id)]]

\* Lines 282-361: get_exam_details(exam_result_id, user_id): None unless
\* the results row with that id has that user_id
get_exam_details(exam_result_id, user_id) ==
  IF \/ exam_result_id \notin 1..Len(results)
     \/ results[exam_result_id].user_id # user_id
  THEN [found |-> FALSE]
  ELSE [found |-> TRUE,
        exam_detail |->
          [id |-> exam_result_id,
           score |-> results[exam_result_id].score,
           grade |-> results[exam_result_id].grade,
           status |-> results[exam_result_id].status,
           total_questions |-> results[exam_result_id].total_questions,
           correct_answers |-> results[exam_result_id].correct_answers,
           questions |-> JoinedQuestions(exam_result_id, user_id)]]

\* Lines 1140-1157: the endpoint exam_detail/<exam_id> of user u: the
\* detail, or 404 'Exam not found'
GD_Call(u, exam_id) ==
  /\ req[u].pc \in {"idle", "done"}
  /\ LET out == get_exam_details(exam_id, u)
     IN req' = [req EXCEPT ![u] =
          [Fresh("get_exam_detail", [exam_id |-> exam_id])
           EXCEPT !.pc = "done",
                  !.response =
                    IF out.found
                    THEN [code |-> 200, exam_detail |-> out.exam_detail]
                    ELSE ErrorResponse(404)]]
  /\ UNCHANGED <<results, detailed, questions_tbl, user_answers, wlock, audit>>

\* ------------------------------------------------------------ specifications
QuestionLists == SeqsUpTo(QuestionPool, MaxQuestions)

\* inputs of the direct calls of save_exam_result
SaveQuestionLists ==
  { <<>>,
    << [id |-> JStr(<<"1">>), question |-> "q", type |-> T_mcq,
        correct_answer |-> JStr(<<"A">>)] >> }
SaveDetailLists ==
  { <<>>, << [question_id |-> 1, score |-> 83, feedback |-> "fb"] >> }
Faults == {"none", "summary", "detail"}

Step(u, llms) ==
  \/ VA_Reject(u)
  \/ VA_InsertPlaceholder(u)
  \/ \E llm \in llms : VA_Question(u, llm)
  \/ VA_Commit(u)
  \/ VA_Finish(u)
  \/ VA_Fault(u)

\* A single request, of any handler and by any user, over the full range of
\* payloads.
Next ==
  \E u \in Users :
    \/ /\ \A v \in Users : req[v].pc = "idle"
       /\ \/ \E data \in Payloads(QuestionLists) : VA_Receive(u, data)
          \/ \E data \in Payloads(QuestionLists), fault \in Faults :
               SE_Submit(u, data, fault)
          \/ \E q \in SaveQuestionLists, s \in SaveScores,
                dr \in SaveDetailLists, fault \in Faults :
               SER_Call(u, q, <<>>, s, dr, fault)
    \/ Step(u, LlmOutcomes)

Spec == Init /\ [][Next]_vars

\* Payloads of the concurrent requests: question lists over an mcq and an
\* essay question, one answers mapping; the evaluator scores 83 or fails.
ConcQuestionPool ==
  { [id |-> JStr(<<"1">>), question |-> "q", type |-> T_mcq,
     correct_answer |-> JStr(<<"A">>)],
    [id |-> JStr(<<"2">>), question |-> "q", type |-> T_essay,
     correct_answer |-> JStr(<<"A">>)] }
ConcAnswers == (<<"1">> :> JStr(<<"a", " ">>)) @@ (<<"2">> :> JStr(<<"B">>))
ConcPayloads ==
  { [answers |-> ConcAnswers, questions |-> q] :
      q \in SeqsUpTo(ConcQuestionPool, MaxQuestions) }
    \cup { [answers |-> ConcAnswers] }
ConcLlm ==
  { [kind |-> "dict", d |-> [overall_score |-> 83, feedback |-> "fb"]],
    [kind |-> "raise"] }

\* One request per user, the requests of different users running at the
\* same time: every interleaving of their steps.
NextConc ==
  \E u \in Users :
    \/ \E data \in ConcPayloads : VA_Receive(u, data)
    \/ \E data \in ConcPayloads : SE_Submit(u, data, "none")
    \/ \E s \in {595000, 1000000}, q \in SaveQuestionLists :
          SER_Call(u, q, <<>>, s, <<>>, "none")
    \/ Step(u, ConcLlm)
    \/ VA_LockTimeout(u)

SpecConc == Init /\ [][NextConc]_vars

\* Inputs of the grader: one question of each type, its reference answer and
\* the submitted answer drawn from all strings of up to MaxLen characters
\* over an alphabet with a letter in both cases and a blank, and from the
\* words of the examples.
MaxLen == 2
GradeChars == {"a", "A", " "}
GradeValues ==
  { JStr(s) : s \in SeqsUpTo(GradeChars, MaxLen) }
    \cup { JStr(<<"P","a","r","i","s">>), JStr(<<" ","p","a","r","i","s"," ">>),
           JStr(<<"T","r","u","e">>), JStr(<<"t","r","u","e">>),
           JTrue, JNull }
GradeTypes == {T_mcq, T_MCQ, T_tf, T_short, T_essay, T_coding, T_other}
GradeQuestions ==
  { [id |-> JStr(<<"1">>), question |-> "q", type |-> t, correct_answer |-> c] :
       t \in GradeTypes, c \in GradeValues }
    \cup { [id |-> JStr(<<"1">>), question |-> "q", type |-> t] :
             t \in GradeTypes }
    \cup { [id |-> JStr(<<"1">>), question |-> "q", correct_answer |-> c] :
             c \in GradeValues }
GradeAnswers ==
  { <<"1">> :> a : a \in GradeValues } \cup { <<>>, <<"9">> :> JStr(<<"a">>) }
GradePayloads ==
  { [answers |-> a, questions |-> <<q>>] :
      a \in GradeAnswers, q \in GradeQuestions }

\* One validate_answers request with a single question, over the full
\* range of reference and submitted answers, without database faults.
NextGrade ==
  \/ /\ \A v \in Users : req[v].pc = "idle"
     /\ \E data \in GradePayloads : VA_Receive("u1", data)
  \/ VA_InsertPlaceholder("u1")
  \/ \E llm \in LlmOutcomes : VA_Question("u1", llm)
  \/ VA_Commit("u1")
  \/ VA_Finish("u1")

SpecGrade == Init /\ [][NextGrade]_vars

\* Inputs of the aggregation: question lists of up to MaxAggregate questions
\* over an mcq, a true_false and an essay question with distinct ids, three
\* answers mappings; the evaluator scores 100 or fails.
MaxAggregate == 3
AggQuestionPool ==
  { [id |-> JStr(<<"1">>), question |-> "q", type |-> T_mcq,
     correct_answer |-> JStr(<<"A">>)],
    [id |-> JStr(<<"2">>), question |-> "q", type |-> T_tf,
     correct_answer |-> JStr(<<"T","r","u","e">>)],
    [id |-> JStr(<<"3">>), question |-> "q", type |-> T_essay] }
AggAnswers ==
  { <<>>,
    (<<"1">> :> JStr(<<"a", " ">>)) @@ (<<"2">> :> JFalse),
    (<<"1">> :> JStr(<<"A">>)) @@ (<<"2">> :> JTrue)
       @@ (<<"3">> :> JStr(<<"a">>)) }
AggPayloads ==
  { [answers |-> a, questions |-> q] :
      a \in AggAnswers, q \in SeqsUpTo(AggQuestionPool, MaxAggregate) }
AggLlm ==
  { [kind |-> "dict", d |-> [overall_score |-> 100, feedback |-> "fb"]],
    [kind |-> "raise"] }

\* One request of one user, by validate_answers or by submit_exam, over
\* the longer question lists, without database faults.
NextAgg ==
  \/ /\ \A v \in Users : req[v].pc = "idle"
     /\ \/ \E data \in AggPayloads : VA_Receive("u1", data)
        \/ \E data \in AggPayloads : SE_Submit("u1", data, "none")
  \/ VA_InsertPlaceholder("u1")
  \/ \E llm \in AggLlm : VA_Question("u1", llm)
  \/ VA_Commit("u1")
  \/ VA_Finish("u1")

SpecAgg == Init /\ [][NextAgg]_vars

\* Scores handed to calculate_grade: every whole number of points up to
\* MaxPoints, the last representable value below each threshold, and a
\* negative score.
MaxPoints == 100
LetterScores ==
  { p * ScoreScale : p \in 0..MaxPoints }
    \cup { t * ScoreScale - 1 : t \in {60, 70, 80, 90} }
    \cup { 0 - ScoreScale }

\* a call calculate_grade(score); the letter it returns is kept with the
\* score
CG_Call(u, score) ==
  /\ req[u].pc = "idle"
  /\ req' = [req EXCEPT ![u] =
       [Fresh("calculate_grade", [score |-> score])
        EXCEPT !.pc = "done",
               !.response = [code |-> 200, score |-> score,
                             grade |-> calculate_grade(score)]]]
  /\ UNCHANGED <<results, detailed, questions_tbl, user_answers, wlock, audit>>

\* Calls of calculate_grade, one per user, over the range of scores.
NextLetter == \E u \in Users, score \in LetterScores : CG_Call(u, score)

SpecLetter == Init /\ [][NextLetter]_vars

\* Question lists the LLM of generate_questions may reply with: up to
\* MaxGenerated questions; mcq questions with four, three, no and an empty
\* list of options, true_false questions with the options in either order
\* or without them, short_answer questions with and without options, and
\* questions without level, without type, or with the type in upper case.
MaxGenerated == 2
GeneratedPool ==
  { [question |-> "q", type |-> T_mcq, level |-> "easy",
     options |-> <<"a", "b", "c", "d">>],
    [question |-> "q", type |-> T_mcq, level |-> "hard",
     options |-> <<"a", "b", "c">>],
    [question |-> "q", type |-> T_mcq, level |-> "easy"],
    [question |-> "q", type |-> T_mcq, level |-> "easy", options |-> <<>>],
    [question |-> "q", type |-> T_tf, level |-> "easy",
     options |-> <<"True", "False">>],
    [question |-> "q", type |-> T_tf, level |-> "hard",
     options |-> <<"False", "True">>],
    [question |-> "q", type |-> T_tf],
    [question |-> "q", type |-> T_short, level |-> "easy",
     options |-> <<"a", "b", "c">>],
    [question |-> "q", type |-> T_short, level |-> "hard"],
    [question |-> "q", type |-> T_essay],
    [question |-> "q"],
    [question |-> "q", type |-> T_MCQ, level |-> "easy",
     options |-> <<"a", "b", "c", "d">>] }

\* Lines 565-575 of generate_questions: the parsed reply is validated; the
\* handler answers with the validated list, or 500 when validate_questions
\* raises.
GQ_Validate(u, questions_json, question_type, difficulty_level) ==
  /\ req[u].pc = "idle"
  /\ LET out == validate_questions(questions_json, question_type,
                                   difficulty_level)
     IN req' = [req EXCEPT ![u] =
          [Fresh("generate_questions",
                 [questions |-> questions_json,
                  question_type |-> question_type,
                  level |-> difficulty_level])
           EXCEPT !.pc = "done",
                  !.response =
                    IF out.raise THEN ErrorResponse(500)
                    ELSE [code |-> 200, questions |-> out.questions,
                          question_type |-> question_type,
                          level |-> difficulty_level]]]
  /\ UNCHANGED <<results, detailed, questions_tbl, user_answers, wlock, audit>>

\* One call of generate_questions, over the replies and the requested types
\* and levels.
NextQuestions ==
  \E questions_json \in SeqsUpTo(GeneratedPool, MaxGenerated),
     question_type \in {T_mcq, T_tf, T_short, T_essay},
     difficulty_level \in {"easy", "hard"} :
    GQ_Validate("u1", questions_json, question_type, difficulty_level)

SpecQuestions == Init /\ [][NextQuestions]_vars

\* the submission of the users that read results
ReadPayload ==
  [answers |-> ConcAnswers,
   questions |-> << [id |-> JStr(<<"1">>), question |-> "q", type |-> T_mcq,
                     correct_answer |-> JStr(<<"A">>)] >>]

\* Each user submits once, through validate_answers or through a call of
\* save_exam_result, the submissions running at the same time; before or
\* after its submission a user reads its results and the detail of any
\* exam id up to the first unused one.
NextRead ==
  \E u \in Users :
    \/ VA_Receive(u, ReadPayload)
    \/ SER_Call(u, <<>>, <<>>, 1000000, <<>>, "none")
    \/ VA_InsertPlaceholder(u)
    \/ VA_Question(u, [kind |-> "raise"])
    \/ VA_Commit(u)
    \/ VA_Finish(u)
    \/ GR_Call(u)
    \/ \E exam_id \in 0..(Len(results) + 1) : GD_Call(u, exam_id)

SpecRead == Init /\ [][NextRead]_vars

\* ----------------------------------------------------------------- claims
Stores == <<results, detailed, questions_tbl, user_answers>>

IsVA(u) == req[u].handler = "validate_answers"

\* the rows a table holds for an exam
RowsOf(tbl, exam_id) == {k \in 1..Len(tbl) : tbl[k].exam_id = exam_id}

\* C1: for every submission handled by validate_answers the counts satisfy
\* 0 <= correct_answers <= gradeable_questions <= total_questions, in the
\* running counters after every loop iteration, in the response and in the
\* stored results row.
C1_CountsOrdered ==
  \A u \in Users :
    (IsVA(u) /\ WellFormed(req[u].data)) =>
      LET r == req[u]
          n == Len(r.data.questions)
      IN /\ 0 <= r.correct_count
         /\ r.correct_count <= r.total_gradeable_questions
         /\ r.total_gradeable_questions <= r.i - 1
         /\ r.i - 1 <= n
         /\ r.response.code = 200 =>
              /\ 0 <= r.response.correct_answers
              /\ r.response.correct_answers <= r.response.total_questions
              /\ r.response.total_questions <= n
         /\ r.exam_id # 0 =>
              /\ 0 <= results[r.exam_id].correct_answers
              /\ results[r.exam_id].correct_answers
                   <= r.total_gradeable_questions
              /\ r.total_gradeable_questions
                   <= results[r.exam_id].total_questions
              /\ results[r.exam_id].total_questions = n

\* C1 witness: a completed submission of two questions, both gradeable, one
\* of them correct.
C1_Witness ==
  \E u \in Users :
    /\ IsVA(u) /\ req[u].pc = "done" /\ req[u].response.code = 200
    /\ req[u].response.correct_answers = 1
    /\ req[u].response.total_questions = 2
    /\ results[req[u].exam_id].correct_answers = 1
    /\ results[req[u].exam_id].total_questions = 2

\* C2 (as claimed): a submission that ends with an error after it was
\* received leaves no row in any store.
C2_NoPartialCommit ==
  \A u \in Users :
    (/\ req[u].handler \in {"validate_answers", "submit_exam"}
     /\ req[u].pc = "done"
     /\ req[u].response.code = 500) =>
      /\ results = <<>>
      /\ detailed = <<>>
      /\ questions_tbl = <<>>
      /\ user_answers = <<>>

\* C3 (as claimed): when a result-writing path fails after its summary row
\* was inserted, that row is absent or carries the incomplete marker
\* ('In Progress'); it never stays with a final grade and status.
C3_SummaryRolledBackOrMarked ==
  \A u \in Users :
    (req[u].pc = "done" /\ req[u].response.code = 500) =>
      \A k \in 1..Len(results) :
        results[k].user_id = u =>
          /\ results[k].status = "In Progress"
          /\ results[k].grade \notin {"A", "B", "C", "D", "F"}

\* C4: a handler answers with a success payload only if every write of the
\* submission was committed (the final results row, one question row and
\* one answer row per question, nothing left uncommitted); a submission
\* during which a write failed is answered with an error.
C4_SuccessOnlyIfCommitted ==
  \A u \in Users :
    req[u].handler \in {"validate_answers", "submit_exam"} =>
      LET r == req[u]
      IN /\ r.faulted => r.response.code # 200
         /\ r.response.code = 200 =>
              /\ r.response.exam_id \in 1..Len(results)
              /\ results[r.response.exam_id].user_id = u
              /\ results[r.response.exam_id].score = r.response.score
              /\ results[r.response.exam_id].grade = r.response.grade
              /\ results[r.response.exam_id].status # "In Progress"
              /\ r.txq = <<>> /\ r.txa = <<>>
              /\ IsVA(u) =>
                   /\ Cardinality(RowsOf(questions_tbl, r.response.exam_id))
                        = Len(r.data.questions)
                   /\ Cardinality(RowsOf(user_answers, r.response.exam_id))
                        = Len(r.data.questions)

\* C4 witness: a success response to a submission of two questions.
C4_Witness ==
  \E u \in Users :
    /\ IsVA(u) /\ req[u].pc = "done" /\ req[u].response.code = 200
    /\ Len(req[u].data.questions) = 2
    /\ Len(questions_tbl) = 2 /\ Len(user_answers) = 2

\* C5: a submission without answers or without questions is rejected with
\* an error; no step of it grades anything or changes any store.
C5_MalformedRejected ==
  [][ \A u \in Users :
        (/\ req'[u].handler \in {"validate_answers", "submit_exam"}
         /\ ~ WellFormed(req'[u].data)
         /\ req'[u] # req[u]) =>
          /\ Stores' = Stores
          /\ req'[u].pc = "done" => req'[u].response.code = 400
          /\ req'[u].pc \in {"received", "done"}
          /\ req'[u].exam_id = 0
          /\ req'[u].detailed_results = <<>>
          /\ req'[u].total_gradeable_questions = 0 ]_vars

\* C5 witness: a rejected validate_answers request without questions.
C5_Witness ==
  \E u \in Users :
    /\ IsVA(u) /\ req[u].pc = "done"
    /\ "questions" \notin DOMAIN req[u].data
    /\ req[u].response.code = 400
    /\ results = <<>>

\* C6: a validate_answers call that passes validation inserts exactly one
\* results row; a results row changes at most once, from the 'In Progress'
\* placeholder to its final values, and never again; no step removes a row.
C6_RowLifecycle ==
  /\ [][ /\ Len(results') >= Len(results)
         /\ Len(results') <= Len(results) + 1
         /\ \A k \in 1..Len(results) :
              results'[k] # results[k] =>
                /\ results[k].status = "In Progress"
                /\ results'[k].status # "In Progress"
                /\ results'[k].user_id = results[k].user_id
         /\ \A u \in Users :
              (req[u].pc = "received" /\ req'[u].pc = "loop") =>
                /\ Len(results') = Len(results) + 1
                /\ req'[u].exam_id = Len(results')
                /\ results'[Len(results')].user_id = u ]_vars
  /\ [](\A u \in Users :
          /\ Cardinality({k \in 1..Len(results) : results[k].user_id = u}) <= 1
          /\ (IsVA(u) /\ req[u].exam_id # 0) =>
               {k \in 1..Len(results) : results[k].user_id = u}
                 = {req[u].exam_id})

\* C6 witness: a completed row of one user next to the placeholder row and
\* the committed question rows of a later submission of the other user.
C6_Witness ==
  /\ Len(results) = 2
  /\ results[1].status = "Completed"
  /\ results[2].status = "In Progress"
  /\ \E u \in Users : IsVA(u) /\ req[u].exam_id = 2 /\ req[u].pc = "committed"

\* the counts validate_answers reaches for a question list when nothing
\* fails (the evaluator's score adds to neither count)
RECURSIVE AloneCounts(_, _)
AloneCounts(questions, answers) ==
  IF questions = <<>> THEN [correct |-> 0, gradeable |-> 0]
  ELSE LET q == Head(questions)
           g == GradeQuestion(q, Get(answers, Str(q.id), JStr(<<>>)),
                              [kind |-> "raise"])
           rest == AloneCounts(Tail(questions), answers)
       IN [correct |-> g.correct + rest.correct,
           gradeable |-> g.gradeable + rest.gradeable]

\* C7 (as claimed): concurrent submissions are independent: each call has
\* its own exam_id, its question and answer rows carry that exam_id, and a
\* call in which no database fault was injected ends as it does alone, with
\* the success response and the final row of its own grading.
C7_Independent ==
  /\ \A u, v \in Users :
       (u # v /\ IsVA(u) /\ IsVA(v) /\ req[u].exam_id # 0) =>
         req[u].exam_id # req[v].exam_id
  /\ \A u \in Users :
       (IsVA(u) /\ req[u].pc = "done" /\ WellFormed(req[u].data)
          /\ ~ req[u].faulted) =>
         LET r == req[u]
             c == AloneCounts(r.data.questions, r.data.answers)
             final_score == FinalScore(c.correct, c.gradeable)
         IN /\ r.response.code = 200
            /\ r.response.exam_id = r.exam_id
            /\ r.response.score = final_score
            /\ r.response.grade = calculate_grade(final_score)
            /\ r.response.correct_answers = c.correct
            /\ r.response.total_questions = c.gradeable
            /\ results[r.exam_id] =
                 FinalRow(Placeholder(u, r.data.questions), final_score,
                          c.correct)
            /\ Cardinality(RowsOf(questions_tbl, r.exam_id))
                 = Len(r.data.questions)
            /\ \A k \in RowsOf(user_answers, r.exam_id) :
                 user_answers[k].user_id = u

\* The normalisation the grading contract names: string form, then the
\* blanks at both ends dropped, then lowercase; written out on its own, over
\* the characters of the grader inputs.
RefString(v) ==
  IF v = JTrue THEN <<"T","r","u","e">>
  ELSE IF v = JFalse THEN <<"F","a","l","s","e">>
  ELSE IF v = JNull THEN <<"N","o","n","e">>
  ELSE v.s

RECURSIVE RefDropLeft(_)
RefDropLeft(s) ==
  IF s # <<>> /\ Head(s) = " " THEN RefDropLeft(Tail(s)) ELSE s

RECURSIVE RefDropRight(_)
RefDropRight(s) ==
  IF s # <<>> /\ s[Len(s)] = " "
  THEN RefDropRight(SubSeq(s, 1, Len(s) - 1)) ELSE s

RefLowerChar(c) ==
  CASE c = "A" -> "a" [] c = "P" -> "p" [] c = "T" -> "t" [] c = "F" -> "f"
    [] c = "N" -> "n" [] OTHER -> c

RefNormalize(v) ==
  LET t == RefDropRight(RefDropLeft(RefString(v)))
  IN [i \in 1..Len(t) |-> RefLowerChar(t[i])]

\* a single-question submission whose loop iteration has run
Graded(u) ==
  /\ IsVA(u) /\ WellFormed(req[u].data)
  /\ Len(req[u].data.questions) = 1
  /\ req[u].i = 2

TheQuestion(u) == req[u].data.questions[1]
TypeOf(u) == Get(TheQuestion(u), "type", <<>>)

\* the answer submitted for the question has a value
Answered(u) == <<"1">> \in DOMAIN req[u].data.answers

\* C8: an mcq or true_false question with a reference answer and a
\* submitted answer is gradeable and scores 100 exactly when the two
\* normalise to the same string, and 0 otherwise; " paris " against "Paris"
\* and "true" against "True" score 100.
C8_BinaryRule ==
  \A u \in Users :
    (/\ Graded(u)
     /\ TypeOf(u) \in {T_mcq, T_tf}
     /\ "correct_answer" \in DOMAIN TheQuestion(u)
     /\ Answered(u)) =>
      LET r == req[u]
          submitted == r.data.answers[<<"1">>]
          reference == TheQuestion(u).correct_answer
          same == RefNormalize(submitted) = RefNormalize(reference)
      IN /\ r.total_gradeable_questions = 1
         /\ r.detailed_results[1].score = IF same THEN 100 ELSE 0
         /\ r.correct_count = IF same THEN 1 ELSE 0
         /\ (/\ submitted = JStr(<<" ","p","a","r","i","s"," ">>)
             /\ reference = JStr(<<"P","a","r","i","s">>))
              => r.detailed_results[1].score = 100
         /\ (/\ submitted = JStr(<<"t","r","u","e">>)
             /\ reference = JStr(<<"T","r","u","e">>))
              => r.detailed_results[1].score = 100

\* C8 witness: " paris " submitted against the reference "Paris", graded 100
\* and stored with the final result.
C8_Witness ==
  \E u \in Users :
    /\ Graded(u) /\ req[u].pc = "done"
    /\ TypeOf(u) = T_mcq
    /\ Answered(u)
    /\ "correct_answer" \in DOMAIN TheQuestion(u)
    /\ req[u].data.answers[<<"1">>] = JStr(<<" ","p","a","r","i","s"," ">>)
    /\ TheQuestion(u).correct_answer = JStr(<<"P","a","r","i","s">>)
    /\ req[u].response.code = 200
    /\ req[u].response.correct_answers = 1

\* C9 (as claimed): an mcq or true_false question with no answer, or with
\* an empty answer, is graded incorrect (score 0, not counted correct) and
\* the submission is not aborted, whatever its correct_answer is.
C9_EmptyAnswerIncorrect ==
  \A u \in Users :
    (/\ IsVA(u) /\ WellFormed(req[u].data)
     /\ Len(req[u].data.questions) = 1
     /\ TypeOf(u) \in {T_mcq, T_tf}
     /\ (~ Answered(u) \/ req[u].data.answers[<<"1">>] = JStr(<<>>))) =>
      /\ req[u].response.code # 500
      /\ req[u].correct_count = 0
      /\ req[u].i = 2 => req[u].detailed_results[1].score = 0

\* C10 (as claimed): a question of type short_answer, of an unknown type or
\* without a type is graded by the binary rule: it is gradeable, it scores
\* 100 when the normalised answers are equal and 0 otherwise, and it is
\* counted in correct_answers when correct.
C10_ShortAnswerBinary ==
  \A u \in Users :
    (/\ Graded(u)
     /\ TypeOf(u) \in {T_short, T_other, <<>>}
     /\ "correct_answer" \in DOMAIN TheQuestion(u)
     /\ Answered(u)) =>
      LET r == req[u]
          same == RefNormalize(r.data.answers[<<"1">>])
                    = RefNormalize(TheQuestion(u).correct_answer)
      IN /\ r.total_gradeable_questions = 1
         /\ r.detailed_results[1].score = IF same THEN 100 ELSE 0
         /\ r.correct_count = IF same THEN 1 ELSE 0

\* the type of the k-th question of a request, lowercased
TypeAt(u, k) == Lower(Get(req[u].data.questions[k], "type", <<>>))

\* C11 (as claimed): after every iteration of validate_answers the
\* denominator counts the mcq, true_false, essay and coding questions graded
\* so far, and correct_count is the number of those whose per-question score
\* is exactly 100, an essay or coding question scored 100 by the evaluator
\* included.
C11_CorrectIsScored100 ==
  \A u \in Users :
    (IsVA(u) /\ WellFormed(req[u].data)) =>
      LET r == req[u]
          graded == 1..Len(r.detailed_results)
          gradeable == {k \in graded :
                          TypeAt(u, k) \in {T_mcq, T_tf, T_essay, T_coding}}
      IN /\ r.total_gradeable_questions = Cardinality(gradeable)
         /\ r.correct_count =
              Cardinality({k \in gradeable : r.detailed_results[k].score = 100})

\* 100 * correct / gradeable rounded to the nearest hundredth, in units of
\* 1/ScoreScale
RefRounded(correct, gradeable) ==
  ((2 * correct * 100 * 100 + gradeable) \div (2 * gradeable))
     * (ScoreScale \div 100)

\* C12 (as claimed): when at least one question is gradeable, the score a
\* handler returns and stores is 100 * correct / gradeable rounded to two
\* decimal places (1 of 3 gives 33.33).
C12_ScoreRounded ==
  \A u \in Users :
    LET r == req[u]
    IN (/\ r.handler \in {"validate_answers", "submit_exam"}
        /\ r.pc = "done" /\ r.response.code = 200) =>
         LET correct == IF IsVA(u) THEN r.correct_count
                        ELSE SubmitCorrect(r.data.questions, r.data.answers)
             gradeable == IF IsVA(u) THEN r.total_gradeable_questions
                          ELSE Len(r.data.questions)
         IN gradeable > 0 =>
              /\ r.response.score = RefRounded(correct, gradeable)
              /\ results[r.exam_id].score = RefRounded(correct, gradeable)
              /\ (correct = 1 /\ gradeable = 3) => r.response.score = 333300

\* C13: the overall score a handler returns, and the score of every results
\* row a handler wrote, lies between 0 and 100 inclusive, whatever the
\* evaluator returned for the essay and coding questions.
C13_ScoreInRange ==
  /\ \A u \in Users :
       (/\ req[u].handler \in {"validate_answers", "submit_exam"}
        /\ req[u].response.code = 200) =>
         /\ 0 <= req[u].response.score
         /\ req[u].response.score <= 100 * ScoreScale
  /\ \A k \in 1..Len(results) :
       audit[k].via \in {"validate_answers", "submit_exam"} =>
         /\ 0 <= results[k].score
         /\ results[k].score <= 100 * ScoreScale

\* C13 witness: a completed submission of an essay the evaluator scored 100
\* and a correctly answered mcq question; its score is 50.
C13_Witness ==
  \E u \in Users :
    /\ IsVA(u) /\ req[u].pc = "done" /\ req[u].response.code = 200
    /\ Len(req[u].data.questions) = 2
    /\ TypeAt(u, 1) = T_essay
    /\ req[u].response.detailed_results[1].score = 100
    /\ req[u].response.correct_answers = 1
    /\ req[u].response.score = 50 * ScoreScale
    /\ results[req[u].exam_id].score = 50 * ScoreScale

\* no question of the request counts in the aggregate of its handler:
\* validate_answers excludes the types it does not grade, submit_exam
\* counts every question
NoneGradeable(u) ==
  LET questions == req[u].data.questions
  IN IF IsVA(u)
     THEN \A k \in 1..Len(questions) :
            /\ HasKeys(questions[k])
            /\ TypeAt(u, k) \notin {T_mcq, T_tf, T_essay, T_coding}
     ELSE questions = <<>>

\* C14 (as claimed): a submission without a gradeable question, in which
\* no database statement fails, completes with a success response and the
\* score 0, in validate_answers and in submit_exam.
C14_NoGradeableScoresZero ==
  \A u \in Users :
    (/\ req[u].handler \in {"validate_answers", "submit_exam"}
     /\ WellFormed(req[u].data)
     /\ NoneGradeable(u)
     /\ ~ req[u].faulted
     /\ req[u].pc = "done") =>
      /\ req[u].response.code = 200
      /\ req[u].response.score = 0
      /\ results[req[u].exam_id].score = 0

\* what the except clause of an evaluator reports
FailureFeedback == "Automatic evaluation failed. Please review manually."

QuestionIds(questions) ==
  {RefString(questions[k].id) :
     k \in {j \in 1..Len(questions) : "id" \in DOMAIN questions[j]}}

\* the answers mapping without the entries whose key is no question id
KnownAnswers(answers, questions) ==
  [key \in (DOMAIN answers) \cap QuestionIds(questions) |-> answers[key]]

\* the answers mapping has an entry whose key is no question id
HasUnknownKey(u) ==
  \E key \in DOMAIN req[u].data.answers :
    key \notin QuestionIds(req[u].data.questions)

\* C16: a validate_answers submission whose answers mapping has an entry
\* for no submitted question is graded as the same submission without that
\* entry: the same per-question result, answer row and counts, the same
\* score, response and results row; the entry fails nothing.
C16_UnknownKeyIgnored ==
  \A u \in Users :
    /\ (/\ IsVA(u) /\ WellFormed(req[u].data) /\ HasUnknownKey(u)
        /\ Len(req[u].data.questions) = 1
        /\ TypeAt(u, 1) \notin {T_essay, T_coding}
        /\ req[u].pc = "done") => req[u].response.code = 200
    /\ (Graded(u) /\ HasUnknownKey(u)) =>
      LET r == req[u]
          clean == KnownAnswers(r.data.answers, r.data.questions)
          rows == IF r.pc = "loop" THEN r.txa ELSE user_answers
      IN /\ \E llm \in LlmOutcomes :
              LET b == LoopBody(TheQuestion(u), clean, llm, r.exam_id, u, 1)
                  final_score == FinalScore(b.correct, b.gradeable)
              IN /\ ~ b.raise
                 /\ r.detailed_results = <<b.detail>>
                 /\ rows = <<b.arow>>
                 /\ r.total_gradeable_questions = b.gradeable
                 /\ r.correct_count = b.correct
                 /\ r.pc = "done" =>
                      /\ r.response.code = 200
                      /\ r.response.score = final_score
                      /\ r.response.correct_answers = b.correct
                      /\ r.response.total_questions = b.gradeable
                      /\ results[r.exam_id] =
                           FinalRow(Placeholder(u, r.data.questions),
                                    final_score, b.correct)

\* C16 witness: the only entry of the answers mapping is for id 9, its
\* value is the reference answer of the submitted mcq question with id 1;
\* the question is graded as unanswered.
C16_Witness ==
  \E u \in Users :
    /\ Graded(u) /\ req[u].pc = "done"
    /\ req[u].data.answers = (<<"9">> :> JStr(<<"a">>))
    /\ TypeOf(u) = T_mcq
    /\ "correct_answer" \in DOMAIN TheQuestion(u)
    /\ TheQuestion(u).correct_answer = JStr(<<"a">>)
    /\ req[u].response.code = 200
    /\ req[u].response.score = 0
    /\ user_answers[1].answer = JStr(<<>>)

\* the order of the letters, worst first
LetterRank(letter) ==
  CASE letter = "F" -> 0 [] letter = "D" -> 1 [] letter = "C" -> 2
    [] letter = "B" -> 3 [] letter = "A" -> 4

IsGradeCall(u) == req[u].handler = "calculate_grade" /\ req[u].pc = "done"

\* C17: calculate_grade returns exactly one of the letters A, B, C, D, F:
\* A from 90, B from 80 to below 90, C from 70 to below 80, D from 60 to
\* below 70, F below 60; of two scores the higher never gets the worse
\* letter; 75.0 gets C.
C17_GradeBands ==
  \A u \in Users :
    IsGradeCall(u) =>
      LET score == req[u].response.score
          grade == req[u].response.grade
      IN /\ grade \in {"A", "B", "C", "D", "F"}
         /\ grade = "A" <=> score >= 900000
         /\ grade = "B" <=> (score >= 800000 /\ score < 900000)
         /\ grade = "C" <=> (score >= 700000 /\ score < 800000)
         /\ grade = "D" <=> (score >= 600000 /\ score < 700000)
         /\ grade = "F" <=> score < 600000
         /\ score = 750000 => grade = "C"
         /\ \A v \in Users :
              (IsGradeCall(v) /\ score <= req[v].response.score) =>
                LetterRank(grade) <= LetterRank(req[v].response.grade)

\* C17 witness: the score 75.0 was graded C and the score 59.9999 F.
C17_Witness ==
  \E u, v \in Users :
    /\ IsGradeCall(u) /\ IsGradeCall(v)
    /\ req[u].response.score = 750000 /\ req[u].response.grade = "C"
    /\ req[v].response.score = 599999 /\ req[v].response.grade = "F"

\* C18 (as claimed): a results row that holds a final result, written by
\* save_exam_result or by validate_answers, has the status 'Passed' when
\* its score is 60 or more and 'Failed' otherwise, and no other status.
C18_StatusPassedOrFailed ==
  \A k \in 1..Len(results) :
    results[k].status # "In Progress" =>
      results[k].status =
        IF results[k].score >= 60 * ScoreScale THEN "Passed" ELSE "Failed"

\* C19 (as claimed): for an mcq or true_false question with an answer, the
\* grading of validate_answers, the scoring of submit_exam and is_correct
\* of save_exam_result all give the verdict of the comparison of the
\* normalised answers.
C19_SameNormalisation ==
  \A u \in Users :
    (/\ req[u].handler = "submit_exam" /\ WellFormed(req[u].data)
     /\ \A k \in 1..Len(req[u].data.questions) :
          {"id", "correct_answer"} \subseteq DOMAIN req[u].data.questions[k]) =>
      \A k \in 1..Len(req[u].data.questions) :
        LET question == req[u].data.questions[k]
            answers == req[u].data.answers
            key == RefString(question.id)
        IN (TypeAt(u, k) \in {T_mcq, T_tf} /\ key \in DOMAIN answers) =>
             LET same == RefNormalize(answers[key])
                           = RefNormalize(question.correct_answer)
                 raised == [kind |-> "raise"]
             IN /\ GradeQuestion(question, answers[key], raised).correct = 1
                     <=> same
                /\ SavedIsCorrect(question, answers) = JStr(<<"1">>) <=> same
                /\ SubmitCorrect(<<question>>, answers) = 1 <=> same

\* the orders in which n questions can be submitted
Orders(n) ==
  {p \in [1..n -> 1..n] : \A i, j \in 1..n : i # j => p[i] # p[j]}

\* C20: the aggregate of a completed validate_answers submission is that
\* of every permutation of its question list with the same answers: the
\* same correct_answers, gradeable count and score, in the response and in
\* the results row.
C20_OrderIndependent ==
  \A u \in Users :
    (IsVA(u) /\ req[u].pc = "done" /\ req[u].response.code = 200) =>
      LET r == req[u]
          questions == r.data.questions
      IN \A p \in Orders(Len(questions)) :
           LET permuted == [k \in 1..Len(questions) |-> questions[p[k]]]
               c == AloneCounts(permuted, r.data.answers)
               final_score == FinalScore(c.correct, c.gradeable)
           IN /\ r.response.correct_answers = c.correct
              /\ r.response.total_questions = c.gradeable
              /\ r.response.score = final_score
              /\ results[r.exam_id].correct_answers = c.correct
              /\ results[r.exam_id].score = final_score

\* C20 witness: a completed submission of an essay, a correctly answered
\* mcq and a wrongly answered true_false question, in this order.
C20_Witness ==
  \E u \in Users :
    /\ IsVA(u) /\ req[u].pc = "done" /\ req[u].response.code = 200
    /\ Len(req[u].data.questions) = 3
    /\ TypeAt(u, 1) = T_essay /\ TypeAt(u, 2) = T_mcq /\ TypeAt(u, 3) = T_tf
    /\ req[u].response.detailed_results[2].score = 100
    /\ req[u].response.detailed_results[3].score = 0
    /\ req[u].response.correct_answers = 1
    /\ req[u].response.total_questions = 3

\* the values a graded single-question submission handed to the comparison
ComparedValues(u) ==
  (IF Answered(u) THEN {req[u].data.answers[<<"1">>]} ELSE {JStr(<<>>)})
    \cup (IF "correct_answer" \in DOMAIN TheQuestion(u)
          THEN {TheQuestion(u).correct_answer} ELSE {JStr(<<>>)})

\* C21: the normalisation of the answer comparison is idempotent: for every
\* value that was compared, normalising the normalised string again gives
\* the same string.
C21_NormalizeIdempotent ==
  \A u \in Users :
    Graded(u) =>
      \A v \in ComparedValues(u) :
        Normalize(JStr(Normalize(v))) = Normalize(v)

\* C21 witness: the answer "  " (two blanks) was compared with the
\* reference " A": both change under the normalisation.
C21_Witness ==
  \E u \in Users :
    /\ Graded(u) /\ req[u].pc = "done" /\ TypeOf(u) = T_mcq
    /\ ComparedValues(u) = {JStr(<<" ", " ">>), JStr(<<" ", "A">>)}
    /\ Normalize(JStr(<<" ", "A">>)) = <<"a">>
    /\ req[u].response.code = 200

\* C22 (as claimed): submit_exam, given a body with questions and answers
\* in which every question has an id and a correct_answer, and with no
\* database statement failing, saves the exam and answers with the success
\* payload: the exam_id of the saved results row, the score and the grade.
C22_SubmitSucceeds ==
  \A u \in Users :
    (/\ req[u].handler = "submit_exam" /\ req[u].pc = "done"
     /\ WellFormed(req[u].data)
     /\ \A k \in 1..Len(req[u].data.questions) :
          {"id", "correct_answer"} \subseteq DOMAIN req[u].data.questions[k]
     /\ ~ req[u].faulted) =>
      /\ req[u].response.code = 200
      /\ req[u].response.exam_id \in 1..Len(results)
      /\ results[req[u].response.exam_id].user_id = u
      /\ results[req[u].response.exam_id].score = req[u].response.score

IsGenerate(u) == req[u].handler = "generate_questions" /\ req[u].pc = "done"

\* C23: when validate_questions returns without raising, every question of
\* the list has the expected type and level, every question of an mcq set
\* has exactly 4 options, every question of a true_false set has the
\* options ["True", "False"] and no question of a short_answer set has
\* options; it raises when a question has another type or when a question
\* of an mcq set does not have exactly 4 options.
C23_ValidatedQuestions ==
  \A u \in Users :
    IsGenerate(u) =>
      LET given == req[u].data.questions
          expected_type == req[u].data.question_type
          expected_level == req[u].data.level
          bad(q) ==
            \/ "type" \notin DOMAIN q
            \/ q.type # expected_type
            \/ /\ expected_type = T_mcq
               /\ ("options" \notin DOMAIN q \/ Len(q.options) # 4)
      IN /\ (\E k \in 1..Len(given) : bad(given[k])) =>
              req[u].response.code = 500
         /\ req[u].response.code = 200 =>
              LET out == req[u].response.questions
              IN /\ Len(out) = Len(given)
                 /\ \A k \in 1..Len(out) :
                      /\ {"type", "level"} \subseteq DOMAIN out[k]
                      /\ out[k].type = expected_type
                      /\ out[k].level = expected_level
                      /\ expected_type = T_mcq =>
                           /\ "options" \in DOMAIN out[k]
                           /\ Len(out[k].options) = 4
                      /\ expected_type = T_tf =>
                           /\ "options" \in DOMAIN out[k]
                           /\ out[k].options = <<"True", "False">>
                      /\ expected_type = T_short =>
                           "options" \notin DOMAIN out[k]

\* C23 witness: a true_false set is returned whose second question came
\* with the options reversed and another level.
C23_Witness ==
  \E u \in Users :
    /\ IsGenerate(u) /\ req[u].response.code = 200
    /\ req[u].data.question_type = T_tf /\ req[u].data.level = "easy"
    /\ Len(req[u].data.questions) = 2
    /\ {"level", "options"} \subseteq DOMAIN req[u].data.questions[2]
    /\ req[u].data.questions[2].level = "hard"
    /\ req[u].data.questions[2].options = <<"False", "True">>
    /\ req[u].response.questions[2].level = "easy"
    /\ req[u].response.questions[2].options = <<"True", "False">>

\* C24: the overall result of a completed validate_answers submission is
\* determined by its questions and answers alone: whatever overall_score
\* the evaluator returned, the score, the grade and correct_answers, in the
\* response and in the results row, are those of the same submission
\* graded with a failing evaluator.
C24_EvaluatorScoreIgnored ==
  \A u \in Users :
    (IsVA(u) /\ req[u].pc = "done" /\ req[u].response.code = 200) =>
      LET r == req[u]
          c == AloneCounts(r.data.questions, r.data.answers)
          final_score == FinalScore(c.correct, c.gradeable)
          row == results[r.exam_id]
      IN /\ r.response.score = final_score
         /\ r.response.grade = calculate_grade(final_score)
         /\ r.response.correct_answers = c.correct
         /\ row.score = final_score
         /\ row.grade = calculate_grade(final_score)
         /\ row.correct_answers = c.correct

\* C24 witness: a completed submission of an essay the evaluator scored 83
\* and a correctly answered question; score 50, grade F, one correct.
C24_Witness ==
  \E u \in Users :
    /\ IsVA(u) /\ req[u].pc = "done" /\ req[u].response.code = 200
    /\ Len(req[u].data.questions) = 2
    /\ TypeAt(u, 1) = T_essay
    /\ req[u].response.detailed_results[1].score = 83
    /\ req[u].response.detailed_results[2].score = 100
    /\ req[u].response.score = 50 * ScoreScale
    /\ req[u].response.grade = "F"
    /\ results[req[u].exam_id].correct_answers = 1

\* C25 (as claimed): after a successful validate_answers call the number of
\* user_answers rows of its exam_id with is_correct = 1 equals the
\* correct_answers of the results row of that exam_id.
C25_CorrectRowsMatch ==
  \A u \in Users :
    (IsVA(u) /\ req[u].pc = "done" /\ req[u].response.code = 200) =>
      Cardinality({k \in RowsOf(user_answers, req[u].exam_id) :
                     user_answers[k].is_correct = 1})
        = results[req[u].exam_id].correct_answers

\* C26 (as claimed): after a successful validate_answers call the score,
\* grade, correct_answers and total_questions of the response equal those
\* of the results row with the returned exam_id.
C26_ResponseEqualsRow ==
  \A u \in Users :
    (IsVA(u) /\ req[u].pc = "done" /\ req[u].response.code = 200) =>
      LET response == req[u].response
          row == results[response.exam_id]
      IN /\ response.score = row.score
         /\ response.grade = row.grade
         /\ response.correct_answers = row.correct_answers
         /\ response.total_questions = row.total_questions

\* the users whose submissions wrote an answer to the question row j
QuestionWriters(j) ==
  {user_answers[a].user_id :
     a \in {b \in 1..Len(user_answers) :
              user_answers[b].question_id = questions_tbl[j].id}}

\* the question rows with the id a response reports
QuestionRows(id) == {j \in 1..Len(questions_tbl) : questions_tbl[j].id = id}

\* C27: get_results of user u reports only results rows inserted by u, and
\* reads their subject from questions of u only; the exam detail of an
\* exam id is given to u only when u inserted that results row, with
\* questions and answers of u only, and is answered 404 without any data
\* otherwise.
C27_OwnResultsOnly ==
  \A u \in Users :
    /\ (req[u].handler = "get_results" /\ req[u].response.code = 200) =>
         \A e \in req[u].response.results :
           /\ e.user_id = u
           /\ e.id \in 1..Len(results)
           /\ audit[e.id].by = u
           /\ \A j \in e.from_questions : QuestionWriters(j) \subseteq {u}
    /\ req[u].handler = "get_exam_detail" =>
         LET exam_id == req[u].data.exam_id
             own == exam_id \in 1..Len(results) /\ audit[exam_id].by = u
         IN /\ req[u].response.code = 200 =>
                 /\ own
                 /\ req[u].response.exam_detail.id = exam_id
                 /\ \A q \in req[u].response.exam_detail.questions :
                      \A j \in QuestionRows(q.id) :
                        QuestionWriters(j) \subseteq {u}
            /\ ~ own =>
                 /\ req[u].response.code = 404
                 /\ DOMAIN req[u].response = {"code"}

\* C27 witness: a user asked for the detail of the completed exam of the
\* other user, whose question and answer are stored, and got 404, while a
\* results row of its own exists.
C27_Witness ==
  \E u, v \in Users :
    /\ u # v
    /\ req[u].handler = "get_exam_detail"
    /\ req[u].data.exam_id \in 1..Len(results)
    /\ results[req[u].data.exam_id].user_id = v
    /\ results[req[u].data.exam_id].status = "Completed"
    /\ RowsOf(user_answers, req[u].data.exam_id) # {}
    /\ \E k \in 1..Len(results) : results[k].user_id = u
    /\ req[u].response.code = 404

====
